---------------------------- MODULE Spec2Model ----------------------------
(***************************************************************************)
(* A model of the wavv crate: the RIFF chunk tokenizer (chunk.rs), the     *)
(* fmt codec (fmt.rs), the sample codec (data.rs) and the document         *)
(* aggregator (wav.rs).                                                    *)
(*                                                                         *)
(* Byte buffers are sequences over 0..255.  A Rust Result is a record      *)
(* [tag, val] with tag "Ok" or "Err"; a panic (an out-of-range slice or    *)
(* index, an arithmetic overflow under overflow checks) is the third       *)
(* outcome, tag "Panic".  usize is taken to be 64 bits wide.               *)
(*                                                                         *)
(* The checker's integers are 32-bit signed, so a u32 is held as an        *)
(* integer only below 2^31 (the inputs are drawn accordingly) and the      *)
(* products of Fmt::to_chunk, which may leave that range, are computed on  *)
(* little-endian base-256 limbs, where the u32 width is the first 4 limbs. *)
(***************************************************************************)
EXTENDS Integers, Sequences, FiniteSets, TLC

VARIABLES
    overflow_checks,  \* build profile: TRUE = overflow checks on (debug), FALSE = wrapping (release)
    op,               \* the call made last
    layout,           \* how the buffer in `bytes` was laid out by its producer
    bytes,            \* the byte buffer the caller holds
    ret,              \* what the last call returned
    visited,          \* offsets in the RIFF payload where parse_chunks read a chunk header
    wav,              \* the document the caller holds
    chunk,            \* the Chunk the caller holds
    fmt,              \* the Fmt handed to the last codec call
    data,             \* the Data handed to the last codec call
    args,             \* the usize arguments handed to Wav::from_data
    depth,            \* how many LIST chunks deep the last parsing::parse_chunks call went
    run               \* the locals of a Wav::from_bytes call that is followed loop by loop

vars == <<overflow_checks, op, layout, bytes, ret, visited, wav, chunk, fmt, data, args, depth, run>>

---------------------------------------------------------------------------
(* Results, errors, absent values *)

Ok(v) == [tag |-> "Ok", val |-> v]

Err(kind, n) == [tag |-> "Err", val |-> [kind |-> kind, n |-> n]]

Panic == [tag |-> "Panic", val |-> <<>>]

None == [tag |-> "None", val |-> <<>>]

---------------------------------------------------------------------------
(* Little-endian integers *)

u16_from_le_bytes(b) == b[1] + 256 * b[2]

u32_from_le_bytes(b) == b[1] + 256 * b[2] + 65536 * b[3] + 16777216 * b[4]

u16_to_le_bytes(n) == << n % 256, (n \div 256) % 256 >>

\* Also the truncating cast `as u32` of a wider non-negative value: only the
\* four low bytes are kept.
u32_to_le_bytes(n) ==
    << n % 256, (n \div 256) % 256, (n \div 65536) % 256, (n \div 16777216) % 256 >>

\* A usize value: its 8 little-endian bytes (here of a value below 2^31).
usize_to_le_bytes(n) == u32_to_le_bytes(n) \o <<0, 0, 0, 0>>

\* The cast `as u32` of a usize: the 4 low bytes are kept.
usize_as_u32(x) == u32_from_le_bytes(SubSeq(x, 1, 4))

\* The cast `as u16` of a usize: the 2 low bytes are kept.
usize_as_u16(x) == u16_from_le_bytes(SubSeq(x, 1, 2))

\* b * m for a little-endian limb sequence b and a factor m < 2^16, as
\* Len(b) + 3 limbs (schoolbook multiplication, carry first).
RECURSIVE mul_le(_, _, _, _)
mul_le(b, m, k, carry) ==
    IF k > Len(b) + 3 THEN <<>>
    ELSE LET cur == (IF k <= Len(b) THEN b[k] * m ELSE 0) + carry
         IN  <<cur % 256>> \o mul_le(b, m, k + 1, cur \div 256)

\* b \div d for a little-endian limb sequence b (long division, top limb
\* first); rem is the remainder carried in from the limbs above k.
RECURSIVE div_le(_, _, _, _)
div_le(b, d, k, rem) ==
    IF k < 1 THEN <<>>
    ELSE LET cur == rem * 256 + b[k]
         IN  div_le(b, d, k - 1, cur % d) \o <<cur \div d>>

\* Whether a limb sequence exceeds the u32 range.
exceeds_u32(b) == \E k \in 5..Len(b) : b[k] # 0

---------------------------------------------------------------------------
(* chunk.rs: ChunkTag *)

RIFF_BYTES == <<82, 73, 70, 70>>

FMT_BYTES == <<102, 109, 116, 32>>

DATA_BYTES == <<100, 97, 116, 97>>

WAVE_BYTES == <<87, 65, 86, 69>>

Tag(kind) == [kind |-> kind, raw |-> <<>>]

ChunkTag_from_bytes(b) ==
    IF b = RIFF_BYTES THEN Tag("Riff")
    ELSE IF b = FMT_BYTES THEN Tag("Fmt")
    ELSE IF b = DATA_BYTES THEN Tag("Data")
    ELSE IF b = WAVE_BYTES THEN Tag("Wave")
    ELSE [kind |-> "Unknown", raw |-> b]

ChunkTag_to_bytes(t) ==
    IF t.kind = "Riff" THEN RIFF_BYTES
    ELSE IF t.kind = "Fmt" THEN FMT_BYTES
    ELSE IF t.kind = "Data" THEN DATA_BYTES
    ELSE IF t.kind = "Wave" THEN WAVE_BYTES
    ELSE t.raw

---------------------------------------------------------------------------
(* chunk.rs: Chunk *)

\* bytes[0..4], bytes[4..8] and bytes[8..end] are unchecked slices: each
\* panics when its end lies past the slice.  The try_into of a 4-byte slice
\* cannot fail, so CantParseSliceInto is never returned.
Chunk_from_bytes(b) ==
    IF Len(b) < 4 THEN Panic
    ELSE IF Len(b) < 8 THEN Panic
    ELSE LET id   == ChunkTag_from_bytes(SubSeq(b, 1, 4))
             size == u32_from_le_bytes(SubSeq(b, 5, 8))
             end  == 8 + size
         IN  IF end > Len(b) THEN Panic
             ELSE Ok([id |-> id, bytes |-> SubSeq(b, 9, end)])

\* Chunk_to_bytes appending a padding byte to an odd-sized payload.
Chunk_to_bytes_padded(c) ==
    ChunkTag_to_bytes(c.id) \o u32_to_le_bytes(Len(c.bytes)) \o c.bytes
        \o (IF Len(c.bytes) % 2 = 1 THEN <<0>> ELSE <<>>)

\* (self.bytes.len() as u32).to_le_bytes(): the cast keeps the low 4 bytes.
Chunk_to_bytes(c) ==
    ChunkTag_to_bytes(c.id) \o u32_to_le_bytes(Len(c.bytes)) \o c.bytes

\* (chunk_length & 1) * 8
padding_byte(chunk_length) == (chunk_length % 2) * 8

\* next_index without the 8 bytes of the chunk header and the padding.
next_index_stalled(index, chunk_length) == index + chunk_length

\* index += 8 + chunk_length + padding_byte
next_index(index, chunk_length) == index + 8 + chunk_length + padding_byte(chunk_length)

\* The while loop of parse_chunks over the RIFF payload rb.
RECURSIVE parse_loop(_, _, _, _)
parse_loop(rb, index, chunks, seen) ==
    IF ~(index < Len(rb)) THEN [ret |-> Ok(chunks), visited |-> seen]
    ELSE LET c == Chunk_from_bytes(SubSeq(rb, index + 1, Len(rb)))
         IN  IF c.tag # "Ok" THEN [ret |-> c, visited |-> Append(seen, index)]
             ELSE parse_loop(rb, next_index(index, Len(c.val.bytes)),
                             Append(chunks, c.val), Append(seen, index))

parse_chunks_run(b) ==
    LET riff == Chunk_from_bytes(b)
    IN  IF riff.tag # "Ok" THEN [ret |-> riff, visited |-> <<>>]
        ELSE IF riff.val.id # Tag("Riff")
             THEN [ret |-> Err("NoRiffChunkFound", 0), visited |-> <<>>]
        ELSE IF Len(riff.val.bytes) < 4 THEN [ret |-> Panic, visited |-> <<>>]
        ELSE IF SubSeq(riff.val.bytes, 1, 4) # ChunkTag_to_bytes(Tag("Wave"))
             THEN [ret |-> Err("NoWaveTagFound", 0), visited |-> <<>>]
        ELSE parse_loop(riff.val.bytes, 4, <<>>, <<>>)

parse_chunks(b) == parse_chunks_run(b).ret

---------------------------------------------------------------------------
(* fmt.rs: Fmt *)

\* The audio format field of a fmt payload: the little-endian u16 at [0, 2).
AudioFormat(b) == u16_from_le_bytes(SubSeq(b, 1, 2))

\* Fmt_from_chunk reading the bit depth from bytes [12, 14), the block align.
Fmt_from_chunk_depth_at_12(c) ==
    IF Len(c.bytes) < 2 THEN Panic
    ELSE IF AudioFormat(c.bytes) # 1 THEN Err("UnsupportedFormat", AudioFormat(c.bytes))
    ELSE IF Len(c.bytes) < 16 THEN Panic
    ELSE Ok([sample_rate  |-> u32_from_le_bytes(SubSeq(c.bytes, 5, 8)),
             num_channels |-> u16_from_le_bytes(SubSeq(c.bytes, 3, 4)),
             bit_depth    |-> u16_from_le_bytes(SubSeq(c.bytes, 13, 14))])

\* Fmt_from_chunk without the test of the audio format field.
Fmt_from_chunk_any_format(c) ==
    IF Len(c.bytes) < 16 THEN Panic
    ELSE Ok([sample_rate  |-> u32_from_le_bytes(SubSeq(c.bytes, 5, 8)),
             num_channels |-> u16_from_le_bytes(SubSeq(c.bytes, 3, 4)),
             bit_depth    |-> u16_from_le_bytes(SubSeq(c.bytes, 15, 16))])

\* chunk.bytes[0..2], [2..4], [4..8] and [14..16] are unchecked slices.
Fmt_from_chunk(c) ==
    IF Len(c.bytes) < 2 THEN Panic
    ELSE LET format == u16_from_le_bytes(SubSeq(c.bytes, 1, 2))
         IN  IF format # 1 THEN Err("UnsupportedFormat", format)
             ELSE IF Len(c.bytes) < 4 THEN Panic
             ELSE IF Len(c.bytes) < 8 THEN Panic
             ELSE IF Len(c.bytes) < 16 THEN Panic
             ELSE Ok([sample_rate  |-> u32_from_le_bytes(SubSeq(c.bytes, 5, 8)),
                      num_channels |-> u16_from_le_bytes(SubSeq(c.bytes, 3, 4)),
                      bit_depth    |-> u16_from_le_bytes(SubSeq(c.bytes, 15, 16))])

\* self.sample_rate * (self.bit_depth as u32) * (self.num_channels as u32) is
\* u32 arithmetic and self.num_channels * self.bit_depth is u16 arithmetic:
\* a product out of range panics when checks is TRUE and wraps otherwise.
Fmt_to_chunk_in(f, checks) ==
    LET sr  == u32_to_le_bytes(f.sample_rate)
        p1  == mul_le(sr, f.bit_depth, 1, 0)
        p2  == mul_le(SubSeq(p1, 1, 4), f.num_channels, 1, 0)
        p3  == f.num_channels * f.bit_depth
        br  == div_le(SubSeq(p2, 1, 4), 8, 4, 0)
        ba  == u16_to_le_bytes((p3 % 65536) \div 8)
        nc  == u16_to_le_bytes(f.num_channels)
        bd  == u16_to_le_bytes(f.bit_depth)
    IN  IF checks /\ (exceeds_u32(p1) \/ exceeds_u32(p2) \/ p3 > 65535) THEN Panic
        ELSE Ok([id |-> Tag("Fmt"),
                 bytes |-> <<1, 0>> \o nc \o sr \o br \o ba \o bd])

Fmt_to_chunk(f) == Fmt_to_chunk_in(f, overflow_checks)

---------------------------------------------------------------------------
(* data.rs: Data *)

i16_from_le_bytes(b) ==
    LET u == b[1] + 256 * b[2] IN IF u >= 32768 THEN u - 65536 ELSE u

\* Two's complement: the top byte counts as b[4] - 256 when its high bit is set.
i32_from_le_bytes(b) ==
    b[1] + 256 * b[2] + 65536 * b[3]
         + 16777216 * (IF b[4] >= 128 THEN b[4] - 256 ELSE b[4])

i16_to_le_bytes(s) == u16_to_le_bytes(s % 65536)

\* Two's complement bytes of s: floored division and a non-negative remainder.
i32_to_le_bytes(s) ==
    << s % 256, (s \div 256) % 256, (s \div 65536) % 256, (s \div 16777216) % 256 >>

\* Bytes per sample of a variant.
VariantBytes(variant) ==
    IF variant = "BitDepth8" THEN 1 ELSE IF variant = "BitDepth16" THEN 2 ELSE 3

\* read_sample without the sign extension: the fourth byte is always 0.
read_sample_zero_extended(variant, b, pos) ==
    IF variant = "BitDepth8" THEN Ok(b[pos + 1])
    ELSE IF variant = "BitDepth16"
         THEN IF pos + 1 >= Len(b) THEN Panic
              ELSE Ok(i16_from_le_bytes(<<b[pos + 1], b[pos + 2]>>))
    ELSE IF pos + 2 >= Len(b) THEN Panic
         ELSE Ok(i32_from_le_bytes(<<b[pos + 1], b[pos + 2], b[pos + 3], 0>>))

\* read_sample taking the sign of a 24-bit sample from its first byte.
read_sample_sign_of_first_byte(variant, b, pos) ==
    IF variant = "BitDepth8" THEN Ok(b[pos + 1])
    ELSE IF variant = "BitDepth16"
         THEN IF pos + 1 >= Len(b) THEN Panic
              ELSE Ok(i16_from_le_bytes(<<b[pos + 1], b[pos + 2]>>))
    ELSE IF pos + 2 >= Len(b) THEN Panic
         ELSE LET sign_byte == IF b[pos + 1] \div 128 = 1 THEN 255 ELSE 0
              IN  Ok(i32_from_le_bytes(<<b[pos + 1], b[pos + 2], b[pos + 3], sign_byte>>))

\* One iteration of the decoding loop at position pos: the sample pushed, or
\* a panic when chunk.bytes[pos + 1] or chunk.bytes[pos + 2] is out of range.
read_sample(variant, b, pos) ==
    IF variant = "BitDepth8" THEN Ok(b[pos + 1])
    ELSE IF variant = "BitDepth16"
         THEN IF pos + 1 >= Len(b) THEN Panic
              ELSE Ok(i16_from_le_bytes(<<b[pos + 1], b[pos + 2]>>))
    ELSE IF pos + 2 >= Len(b) THEN Panic
         ELSE LET sign      == b[pos + 3] \div 128
                  sign_byte == IF sign = 1 THEN 255 ELSE 0
              IN  Ok(i32_from_le_bytes(<<b[pos + 1], b[pos + 2], b[pos + 3], sign_byte>>))

RECURSIVE decode_loop(_, _, _, _, _)
decode_loop(variant, b, num_bytes, pos, samples) ==
    IF ~(pos < Len(b)) THEN Ok([variant |-> variant, samples |-> samples])
    ELSE LET s == read_sample(variant, b, pos)
         IN  IF s.tag # "Ok" THEN s
             ELSE decode_loop(variant, b, num_bytes, pos + num_bytes, Append(samples, s.val))

\* Data_from_chunk falling back to 8-bit samples on an unknown bit depth.
Data_from_chunk_default_depth(f, c) ==
    LET variant == IF f.bit_depth = 16 THEN "BitDepth16"
                   ELSE IF f.bit_depth = 24 THEN "BitDepth24" ELSE "BitDepth8"
    IN  decode_loop(variant, c.bytes, VariantBytes(variant), 0, <<>>)

Data_from_chunk(f, c) ==
    IF f.bit_depth \notin {8, 16, 24} THEN Err("UnsupportedBitDepth", f.bit_depth)
    ELSE LET variant == IF f.bit_depth = 8 THEN "BitDepth8"
                        ELSE IF f.bit_depth = 16 THEN "BitDepth16" ELSE "BitDepth24"
         IN  decode_loop(variant, c.bytes, f.bit_depth \div 8, 0, <<>>)

encode_sample(variant, s) ==
    IF variant = "BitDepth8" THEN <<s>>
    ELSE IF variant = "BitDepth16" THEN i16_to_le_bytes(s)
    ELSE SubSeq(i32_to_le_bytes(s), 1, 3)

RECURSIVE encode_loop(_, _, _)
encode_loop(variant, samples, k) ==
    IF k > Len(samples) THEN <<>>
    ELSE encode_sample(variant, samples[k]) \o encode_loop(variant, samples, k + 1)

Data_to_chunk(d) ==
    [id |-> Tag("Data"), bytes |-> encode_loop(d.variant, d.samples, 1)]

Data_len(d) == Len(d.samples)

---------------------------------------------------------------------------
(* wav.rs: Wav *)

\* find taking the last match instead of the first.
find_last(chunks, kind) ==
    LET hits == {i \in 1..Len(chunks) : chunks[i].id = Tag(kind)}
    IN  IF hits = {} THEN None
        ELSE Ok(chunks[CHOOSE i \in hits : \A j \in hits : i >= j])

\* parsed_chunks.iter().find(|c| c.id == tag): the first match, if any.
find(chunks, kind) ==
    LET hits == {i \in 1..Len(chunks) : chunks[i].id = Tag(kind)}
    IN  IF hits = {} THEN None
        ELSE Ok(chunks[CHOOSE i \in hits : \A j \in hits : i <= j])

\* is_ancillary filtering out the Data chunks alone.
is_ancillary_or_fmt(c) == c.id # Tag("Data")

is_ancillary(c) == c.id # Tag("Data") /\ c.id # Tag("Fmt")

\* Wav_from_chunks looking for the data chunk before it decodes the fmt chunk.
Wav_from_chunks_data_first(parsed_chunks) ==
    LET fc == find(parsed_chunks, "Fmt")
        dc == find(parsed_chunks, "Data")
        f  == IF fc.tag = "None" THEN Err("NoFmtChunkFound", 0) ELSE Fmt_from_chunk(fc.val)
    IN  IF dc.tag = "None" THEN Err("NoDataChunkFound", 0)
        ELSE IF f.tag # "Ok" THEN f
        ELSE LET d == Data_from_chunk(f.val, dc.val)
             IN  IF d.tag # "Ok" THEN d
                 ELSE Ok([fmt |-> f.val, data |-> d.val,
                          chunks |-> SelectSeq(parsed_chunks, is_ancillary)])

Wav_from_chunks(parsed_chunks) ==
    LET fc == find(parsed_chunks, "Fmt")
        f  == IF fc.tag = "None" THEN Err("NoFmtChunkFound", 0) ELSE Fmt_from_chunk(fc.val)
        dc == find(parsed_chunks, "Data")
        d  == IF dc.tag = "None" THEN Err("NoDataChunkFound", 0)
              ELSE Data_from_chunk(f.val, dc.val)
    IN  IF f.tag # "Ok" THEN f
        ELSE IF d.tag # "Ok" THEN d
        ELSE Ok([fmt |-> f.val, data |-> d.val,
                 chunks |-> SelectSeq(parsed_chunks, is_ancillary)])

Wav_from_bytes(b) ==
    LET parsed == parse_chunks(b)
    IN  IF parsed.tag # "Ok" THEN parsed ELSE Wav_from_chunks(parsed.val)

\* sample_rate and num_channels are usize arguments, cast with `as u32` and
\* `as u16`.
Wav_from_data(d, sample_rate, num_channels) ==
    [fmt |-> [sample_rate  |-> usize_as_u32(sample_rate),
              num_channels |-> usize_as_u16(num_channels),
              bit_depth    |-> IF d.variant = "BitDepth8" THEN 8
                               ELSE IF d.variant = "BitDepth16" THEN 16 ELSE 24],
     data |-> d,
     chunks |-> <<>>]

\* The concatenated records of a chunk list.
RECURSIVE chunks_to_bytes(_, _)
chunks_to_bytes(cs, k) ==
    IF k > Len(cs) THEN <<>> ELSE Chunk_to_bytes(cs[k]) \o chunks_to_bytes(cs, k + 1)

\* Wav_to_bytes leaving the size field as first written: four zero bytes.
Wav_to_bytes_size_unpatched(w) ==
    LET fc == Fmt_to_chunk(w.fmt)
    IN  IF fc.tag # "Ok" THEN fc
        ELSE Ok(RIFF_BYTES \o <<0, 0, 0, 0>> \o WAVE_BYTES \o Chunk_to_bytes(fc.val)
                           \o Chunk_to_bytes(Data_to_chunk(w.data)))

\* Wav_to_bytes writing the document's other chunks after the data chunk.
Wav_to_bytes_with_chunks(w) ==
    LET fc == Fmt_to_chunk(w.fmt)
    IN  IF fc.tag # "Ok" THEN fc
        ELSE LET body == WAVE_BYTES \o Chunk_to_bytes(fc.val)
                                    \o Chunk_to_bytes(Data_to_chunk(w.data))
                                    \o chunks_to_bytes(w.chunks, 1)
             IN  Ok(RIFF_BYTES \o u32_to_le_bytes(Len(body)) \o body)

Wav_to_bytes(w) ==
    LET fc == Fmt_to_chunk(w.fmt)
    IN  IF fc.tag # "Ok" THEN fc
        ELSE LET body == WAVE_BYTES \o Chunk_to_bytes(fc.val)
                                    \o Chunk_to_bytes(Data_to_chunk(w.data))
                 chunk_size == u32_to_le_bytes(Len(body) + 8 - 8)
             IN  Ok(RIFF_BYTES \o chunk_size \o body)

---------------------------------------------------------------------------
(* parsing.rs: ChunkId (the draft of the tokenizer with nested LIST chunks) *)

LIST_BYTES == <<76, 73, 83, 84>>

JUNK_BYTES == <<74, 85, 78, 75>>

INFO_BYTES == <<73, 78, 70, 79>>

INAM_BYTES == <<73, 78, 65, 77>>

IART_BYTES == <<73, 65, 82, 84>>

IPRD_BYTES == <<73, 80, 82, 68>>

ISFT_BYTES == <<73, 83, 70, 84>>

ChunkId(kind) == [kind |-> kind, raw |-> <<>>]

\* The match of ChunkId::from_bytes, arm by arm.
ChunkId_from_bytes(b) ==
    IF b = RIFF_BYTES THEN ChunkId("RIFF")
    ELSE IF b = FMT_BYTES THEN ChunkId("FMT")
    ELSE IF b = LIST_BYTES THEN ChunkId("LIST")
    ELSE IF b = DATA_BYTES THEN ChunkId("DATA")
    ELSE IF b = JUNK_BYTES THEN ChunkId("JUNK")
    ELSE IF b = WAVE_BYTES THEN ChunkId("WAVE")
    ELSE IF b = INFO_BYTES THEN ChunkId("INFO")
    ELSE IF b = INAM_BYTES THEN ChunkId("INAM")
    ELSE IF b = IART_BYTES THEN ChunkId("INAM")
    ELSE IF b = IPRD_BYTES THEN ChunkId("IPRD")
    ELSE IF b = ISFT_BYTES THEN ChunkId("ISFT")
    ELSE [kind |-> "Other", raw |-> b]

---------------------------------------------------------------------------
(* wave.rs: Samples, as the draft tokenizer of parsing.rs decodes DATA chunks *)

\* One sample at position pos; the 24-bit case is
\* i32::from_le_bytes([0, slice[0], slice[1], slice[2]]).
Samples_read(variant, b, pos) ==
    IF variant = "BitDepth8" THEN b[pos + 1]
    ELSE IF variant = "BitDepth16" THEN i16_from_le_bytes(<<b[pos + 1], b[pos + 2]>>)
    ELSE i32_from_le_bytes(<<0, b[pos + 1], b[pos + 2], b[pos + 3]>>)

\* The loop of Samples::from_bytes: it ends when pos + num_bytes > bytes.len().
RECURSIVE Samples_loop(_, _, _, _, _)
Samples_loop(variant, b, num_bytes, pos, samples) ==
    IF pos + num_bytes > Len(b) THEN Ok([variant |-> variant, samples |-> samples])
    ELSE Samples_loop(variant, b, num_bytes, pos + num_bytes,
                      Append(samples, Samples_read(variant, b, pos)))

Samples_from_bytes(header, b) ==
    IF header.bit_depth \notin {8, 16, 24} THEN Err("UnsupportedBitDepth", header.bit_depth)
    ELSE LET variant == IF header.bit_depth = 8 THEN "BitDepth8"
                        ELSE IF header.bit_depth = 16 THEN "BitDepth16" ELSE "BitDepth24"
         IN  Samples_loop(variant, b, header.bit_depth \div 8, 0, <<>>)

---------------------------------------------------------------------------
(* parsing.rs: Chunk, parse_chunks, parse_chunk.  Each result carries       *)
(* `depth`, the number of LIST chunks the call was inside at its deepest.   *)

\* bytes[0..4], bytes[4..8], bytes[start..end] and bytes[end..] are
\* unchecked slices.
parsing_parse_chunk(b) ==
    IF Len(b) < 4 THEN Panic
    ELSE IF Len(b) < 8 THEN Panic
    ELSE LET chunk_id   == ChunkId_from_bytes(SubSeq(b, 1, 4))
             chunk_size == u32_from_le_bytes(SubSeq(b, 5, 8))
             end        == 8 + chunk_size
         IN  IF end > Len(b) THEN Panic
             ELSE Ok([chunk_id |-> chunk_id, chunk_bytes |-> SubSeq(b, 9, end),
                      new_tail |-> SubSeq(b, end + 1, Len(b))])

RECURSIVE parsing_parse_chunks(_, _, _)
RECURSIVE Chunk_from_bytes_with_id_and_header(_, _, _, _)

\* level: the number of LIST chunks this call is inside.
Chunk_from_bytes_with_id_and_header(header, id, b, level) ==
    IF id = ChunkId("DATA")
    THEN LET samples == Samples_from_bytes(header, b)
         IN  [ret |-> IF samples.tag # "Ok" THEN samples
                      ELSE Ok([kind |-> "DATA", samples |-> samples.val]),
              depth |-> level]
    ELSE IF id = ChunkId("LIST")
    THEN IF Len(b) < 4 THEN [ret |-> Panic, depth |-> level]
         ELSE LET chunk_id == ChunkId_from_bytes(SubSeq(b, 1, 4))
                  inner    == parsing_parse_chunks(header, SubSeq(b, 5, Len(b)), level + 1)
              IN  [ret |-> IF inner.ret.tag # "Ok" THEN inner.ret
                           ELSE Ok([kind |-> "LIST", id |-> chunk_id, chunks |-> inner.ret.val]),
                   depth |-> inner.depth]
    ELSE [ret |-> Ok([kind |-> "Unknown", id |-> id, bytes |-> b]), depth |-> level]

\* The loop of parse_chunks over tail, one chunk and the rest.
parsing_parse_chunks(header, tail, level) ==
    IF Len(tail) = 0 THEN [ret |-> Ok(<<>>), depth |-> level]
    ELSE LET pc == parsing_parse_chunk(tail)
         IN  IF pc.tag # "Ok" THEN [ret |-> pc, depth |-> level]
             ELSE LET c == Chunk_from_bytes_with_id_and_header(
                               header, pc.val.chunk_id, pc.val.chunk_bytes, level)
                  IN  IF c.ret.tag # "Ok" THEN c
                      ELSE LET rest == parsing_parse_chunks(header, pc.val.new_tail, level)
                           IN  [ret |-> IF rest.ret.tag # "Ok" THEN rest.ret
                                        ELSE Ok(<<c.ret.val>> \o rest.ret.val),
                                depth |-> IF c.depth > rest.depth THEN c.depth ELSE rest.depth]

---------------------------------------------------------------------------
(* Bounds of the model *)

\* Most chunks after the WAVE marker in a generated file.
MaxChunks == 3

\* Most samples in a generated sample buffer.
MaxSamples == 2

\* Longest prefix kept when a generated file is cut short.
MaxKeep == 24

\* Longest payload of a generated single record.
MaxPayload == 7

\* Most LIST chunks a generated buffer nests in one another.
MaxNest == 3

---------------------------------------------------------------------------
(* Inputs: the byte buffers a producer of WAVE files hands to the crate.    *)
(* They follow the layouts of the crate's test fixtures: a RIFF header, the *)
(* WAVE marker, then framed chunks, an odd-sized chunk followed by one      *)
(* padding byte.                                                           *)

RIFX_BYTES == <<82, 73, 70, 88>>

WAVV_BYTES == <<87, 65, 86, 86>>

RNDM_BYTES == <<114, 110, 100, 109>>

FmtPayload(format, nc, sr, br, ba, bd) ==
    u16_to_le_bytes(format) \o u16_to_le_bytes(nc) \o u32_to_le_bytes(sr)
        \o u32_to_le_bytes(br) \o u16_to_le_bytes(ba) \o u16_to_le_bytes(bd)

Piece(tag, payload) == [tag |-> tag, payload |-> payload]

P_fmt16 == Piece(FMT_BYTES, FmtPayload(1, 2, 22050, 88200, 4, 16))

P_fmt24 == Piece(FMT_BYTES, FmtPayload(1, 1, 48000, 144000, 3, 24))

P_fmt8 == Piece(FMT_BYTES, FmtPayload(1, 1, 8000, 8000, 1, 8))

\* sample rate 0x20000000: the byte rate fits in 32 bits, sample_rate * 8 does not
P_fmtBig == Piece(FMT_BYTES, FmtPayload(1, 1, 536870912, 536870912, 1, 8))

P_fmt12 == Piece(FMT_BYTES, FmtPayload(1, 1, 8000, 12000, 1, 12))

P_fmtNonPcm == Piece(FMT_BYTES, FmtPayload(3, 1, 8000, 32000, 4, 32))

P_fmt32 == Piece(FMT_BYTES, FmtPayload(1, 1, 8000, 32000, 4, 32))

\* byte rate and block align that do not follow from the other fields
P_fmtOddRates == Piece(FMT_BYTES, FmtPayload(1, 2, 22050, 1, 65535, 16))

\* an 18-byte fmt payload: the 16 bytes of P_fmt16 and an extension size
P_fmtExt == Piece(FMT_BYTES, FmtPayload(1, 2, 22050, 88200, 4, 16) \o <<2, 0>>)

P_fmtShort == Piece(FMT_BYTES, <<1, 0, 1, 0>>)

P_data6 == Piece(DATA_BYTES, <<0, 0, 128, 255, 255, 127>>)

P_data3 == Piece(DATA_BYTES, <<255, 255, 255>>)

P_rndm1 == Piece(RNDM_BYTES, <<170>>)

P_rndm2 == Piece(RNDM_BYTES, <<170, 187>>)

Pieces == {P_fmt16, P_fmt24, P_fmt8, P_fmtBig, P_fmt12, P_fmt32, P_fmtNonPcm, P_fmtShort,
           P_data6, P_data3, P_rndm1, P_rndm2}

\* The well-formed chunks: long files are made of these alone.
CorePieces == {P_fmt16, P_fmt24, P_data6, P_data3, P_rndm1, P_rndm2}

PieceLists(S, n) == UNION {[1..k -> S] : k \in 0..n}

\* One chunk as it lies in a file: tag, size, payload, and the padding byte
\* after an odd-sized payload.
Frame(p) ==
    p.tag \o u32_to_le_bytes(Len(p.payload)) \o p.payload
          \o (IF Len(p.payload) % 2 = 1 THEN <<0>> ELSE <<>>)

RECURSIVE Frames(_, _)
Frames(ps, k) == IF k > Len(ps) THEN <<>> ELSE Frame(ps[k]) \o Frames(ps, k + 1)

\* A file layout: the two header tags, the chunks, how many leading bytes
\* are kept (-1: all of them) and whether the RIFF size field states the
\* kept length (resize) or the uncut one.
Layout(kind, riff, form, chunks, keep, resize) ==
    [kind |-> kind, riff |-> riff, form |-> form, chunks |-> chunks,
     keep |-> keep, resize |-> resize]

NoLayout == Layout("none", <<>>, <<>>, <<>>, -1, FALSE)

Build(l) ==
    LET body == l.form \o Frames(l.chunks, 1)
        full == l.riff \o u32_to_le_bytes(Len(body)) \o body
        n    == IF l.keep < 0 \/ l.keep > Len(full) THEN Len(full) ELSE l.keep
        cut  == SubSeq(full, 1, n)
    IN  IF l.resize /\ n >= 8
        THEN SubSeq(cut, 1, 4) \o u32_to_le_bytes(n - 8) \o SubSeq(cut, 9, n)
        ELSE cut

\* Well-framed RIFF/WAVE files.
GoodLayouts ==
    {Layout("file", RIFF_BYTES, WAVE_BYTES, cs, -1, FALSE) :
        cs \in PieceLists(CorePieces, MaxChunks) \cup PieceLists(Pieces, MaxChunks - 1)}

\* Files whose RIFF tag or WAVE marker is another 4-byte word.
BadHeaderLayouts ==
    {Layout("file", h[1], h[2], cs, -1, FALSE) :
        h \in {<<RIFX_BYTES, WAVE_BYTES>>, <<RIFF_BYTES, WAVV_BYTES>>, <<RIFX_BYTES, WAVV_BYTES>>},
        cs \in PieceLists(CorePieces, MaxChunks - 1)}

\* Files cut short, with a RIFF size field that was or was not brought in line.
CutLayouts ==
    {Layout("file", RIFF_BYTES, form, cs, keep, resize) :
        form \in {WAVE_BYTES, WAVV_BYTES},
        cs \in {<<>>, <<P_rndm2>>, <<P_rndm1, P_data3>>},
        keep \in 0..MaxKeep, resize \in BOOLEAN}

\* Files that do not start with RIFF, cut short likewise.
CutBadHeaderLayouts ==
    {Layout("file", RIFX_BYTES, WAVE_BYTES, <<P_rndm2>>, keep, resize) :
        keep \in 0..MaxKeep, resize \in BOOLEAN}

FileLayouts == GoodLayouts \cup BadHeaderLayouts \cup CutLayouts \cup CutBadHeaderLayouts

\* A single record, as the tests of data.rs hand to Chunk::from_bytes.
PayloadPattern == <<255, 255, 127, 0, 0, 128, 1, 0, 0, 255, 255, 255>>

RecordLayouts ==
    {Layout("record", <<>>, <<>>, <<Piece(t, SubSeq(PayloadPattern, 1, n))>>, -1, FALSE) :
        t \in {DATA_BYTES, RNDM_BYTES}, n \in 0..MaxPayload}
    \cup {Layout("record", <<>>, <<>>, <<p>>, -1, FALSE) :
        p \in {P_fmt16, P_fmt24, P_fmt8, P_fmt12, P_fmt32, P_fmtNonPcm, P_fmtShort,
               P_fmtOddRates, P_fmtExt}}

BuildRecord(l) == l.chunks[1].tag \o u32_to_le_bytes(Len(l.chunks[1].payload))
                                  \o l.chunks[1].payload

Samples8 == {0, 127, 128, 255}

Samples16 == {-32768, -1, 0, 1, 32767}

\* 8388608 lies outside the 24-bit range
Samples24 == {-8388608, -1, 0, 1, 8388607, 8388608}

SampleSeqs(S) == UNION {[1..k -> S] : k \in 0..MaxSamples}

DataInputs ==
    {[variant |-> "BitDepth8", samples |-> ss] : ss \in SampleSeqs(Samples8)}
    \cup {[variant |-> "BitDepth16", samples |-> ss] : ss \in SampleSeqs(Samples16)}
    \cup {[variant |-> "BitDepth24", samples |-> ss] : ss \in SampleSeqs(Samples24)}

SampleRates == {0, 8000, 22050, 48000, 536870912, 2147483647}

ChannelCounts == {0, 1, 2, 65535}

BitDepths == {0, 8, 12, 16, 24, 32}

FmtInputs ==
    {[sample_rate |-> sr, num_channels |-> nc, bit_depth |-> bd] :
        sr \in SampleRates, nc \in ChannelCounts, bd \in BitDepths}

\* usize arguments of Wav::from_data: 44100, 0x20000000 and 2^32 + 44100.
SampleRateArgs ==
    {usize_to_le_bytes(44100), usize_to_le_bytes(536870912), <<68, 172, 0, 0, 1, 0, 0, 0>>}

\* usize arguments of Wav::from_data: 1, 2 and 65537.
ChannelArgs == {usize_to_le_bytes(1), usize_to_le_bytes(2), usize_to_le_bytes(65537)}

\* One chunk as parsing.rs reads it: tag, size, payload, no padding byte.
Record(p) == p.tag \o u32_to_le_bytes(Len(p.payload)) \o p.payload

\* What the innermost LIST chunk of a generated buffer holds: nothing, a
\* chunk of another tag, a data chunk and a chunk of another tag, or a chunk
\* header cut short.
Leaves ==
    {<<>>, Record(P_rndm2), Record(P_data6) \o Record(P_rndm1), <<114, 110, 100>>}

\* n LIST chunks of type INFO, one in the other, around a leaf.
RECURSIVE Nested(_, _)
Nested(n, leaf) ==
    IF n = 0 THEN leaf
    ELSE Record(Piece(LIST_BYTES, INFO_BYTES \o Nested(n - 1, leaf)))

\* The same chunks, preceded by a chunk of another tag and followed by a
\* second, empty LIST chunk.
NestedInputs ==
    {Nested(n, leaf) : n \in 0..MaxNest, leaf \in Leaves}
        \cup {Record(P_rndm2) \o Nested(n, leaf) \o Record(Piece(LIST_BYTES, INFO_BYTES)) :
                 n \in 0..MaxNest, leaf \in Leaves}

\* The identifiers the ChunkId enum documents, by variant name, as the four
\* ASCII bytes of the name ("fmt " and "data" in lower case).
DocumentedIds ==
    [RIFF |-> RIFF_BYTES, FMT |-> FMT_BYTES, LIST |-> LIST_BYTES, DATA |-> DATA_BYTES,
     JUNK |-> JUNK_BYTES, WAVE |-> WAVE_BYTES, INFO |-> INFO_BYTES, INAM |-> INAM_BYTES,
     IART |-> IART_BYTES, IPRD |-> IPRD_BYTES, ISFT |-> ISFT_BYTES,
     ITCH |-> <<73, 84, 67, 72>>, IGNR |-> <<73, 71, 78, 82>>, ISGN |-> <<73, 83, 71, 78>>,
     ICOP |-> <<73, 67, 79, 80>>, TRCK |-> <<84, 82, 67, 75>>, TLEN |-> <<84, 76, 69, 78>>]

\* The 4-byte identifiers handed to ChunkId::from_bytes.
IdInputs ==
    {DocumentedIds[n] : n \in DOMAIN DocumentedIds}
        \cup {RNDM_BYTES, RIFX_BYTES, WAVV_BYTES, <<0, 0, 0, 0>>}

\* The descriptors of the tests of data.rs: 48 kHz mono at each depth.
DepthFmts ==
    {[sample_rate |-> 48000, num_channels |-> 1, bit_depth |-> bd] : bd \in BitDepths}

P_rndm0 == Piece(RNDM_BYTES, <<>>)

\* The chunks of the files whose parsing is followed loop by loop: fmt and
\* data chunks, a 12-bit fmt chunk, a zero-length and an odd-sized chunk.
LoopPieces == {P_fmt16, P_fmt24, P_fmt12, P_data6, P_data3, P_rndm0, P_rndm1}

LoopLayouts ==
    {Layout("file", RIFF_BYTES, WAVE_BYTES, cs, -1, FALSE) :
        cs \in PieceLists(LoopPieces, MaxChunks)}
    \cup CutLayouts

\* No call is being followed.
Idle ==
    [pc |-> "idle", rb |-> <<>>, index |-> 0, chunks |-> <<>>, parse_iterations |-> 0,
     f |-> None, variant |-> "", db |-> <<>>, pos |-> 0, samples |-> <<>>,
     decode_iterations |-> 0]

---------------------------------------------------------------------------
(* The state machine: one run of a caller, which starts from one input (a   *)
(* file, a record, or a value built in memory) and then makes calls on     *)
(* what it holds.                                                          *)

Init ==
    /\ overflow_checks \in BOOLEAN
    /\ op = "init"
    /\ layout = NoLayout
    /\ bytes = <<>>
    /\ ret = None
    /\ visited = <<>>
    /\ wav = None
    /\ chunk = None
    /\ fmt = None
    /\ data = None
    /\ args = None
    /\ depth = 0
    /\ run = Idle

\* The caller reads a file into its buffer.
Load(l) ==
    /\ op = "init"
    /\ op' = "load"
    /\ layout' = l
    /\ bytes' = IF l.kind = "file" THEN Build(l) ELSE BuildRecord(l)
    /\ ret' = None
    /\ visited' = <<>>
    /\ wav' = None
    /\ chunk' = None
    /\ fmt' = None
    /\ data' = None
    /\ args' = None
    /\ depth' = 0
    /\ UNCHANGED <<overflow_checks, run>>

Call_parse_chunks ==
    /\ op = "load"
    /\ layout.kind = "file"
    /\ LET r == parse_chunks_run(bytes)
       IN  /\ ret' = r.ret
           /\ visited' = r.visited
    /\ op' = "parse_chunks"
    /\ UNCHANGED <<overflow_checks, layout, bytes, wav, chunk, fmt, data, args, depth, run>>

Call_Wav_from_bytes ==
    /\ op = "load"
    /\ layout.kind = "file"
    /\ ret' = Wav_from_bytes(bytes)
    /\ wav' = IF ret'.tag = "Ok" THEN ret' ELSE None
    /\ op' = "Wav::from_bytes"
    /\ UNCHANGED <<overflow_checks, layout, bytes, visited, chunk, fmt, data, args, depth, run>>

Call_Wav_from_data(d, sample_rate, num_channels) ==
    /\ op = "init"
    /\ op' = "Wav::from_data"
    /\ layout' = NoLayout
    /\ bytes' = <<>>
    /\ visited' = <<>>
    /\ chunk' = None
    /\ fmt' = None
    /\ data' = Ok(d)
    /\ args' = [sample_rate |-> sample_rate, num_channels |-> num_channels]
    /\ depth' = 0
    /\ wav' = Ok(Wav_from_data(d, sample_rate, num_channels))
    /\ ret' = wav'
    /\ UNCHANGED <<overflow_checks, run>>

Call_Wav_to_bytes ==
    /\ op \in {"Wav::from_bytes", "Wav::from_data"}
    /\ wav.tag = "Ok"
    /\ ret' = Wav_to_bytes(wav.val)
    /\ op' = "Wav::to_bytes"
    /\ UNCHANGED <<overflow_checks, layout, bytes, visited, wav, chunk, fmt, data, args, depth, run>>

Call_Chunk_from_bytes ==
    /\ op = "load"
    /\ layout.kind = "record"
    /\ ret' = Chunk_from_bytes(bytes)
    /\ chunk' = IF ret'.tag = "Ok" THEN ret' ELSE None
    /\ op' = "Chunk::from_bytes"
    /\ UNCHANGED <<overflow_checks, layout, bytes, visited, wav, fmt, data, args, depth, run>>

Call_Data_to_chunk(d) ==
    /\ op = "init"
    /\ op' = "Data::to_chunk"
    /\ layout' = NoLayout
    /\ bytes' = <<>>
    /\ visited' = <<>>
    /\ wav' = None
    /\ fmt' = None
    /\ data' = Ok(d)
    /\ chunk' = Ok(Data_to_chunk(d))
    /\ ret' = chunk'
    /\ args' = None
    /\ depth' = 0
    /\ UNCHANGED <<overflow_checks, run>>

Call_Data_from_chunk(f) ==
    /\ op \in {"Data::to_chunk", "Chunk::from_bytes"}
    /\ chunk.tag = "Ok"
    /\ fmt' = Ok(f)
    /\ ret' = Data_from_chunk(f, chunk.val)
    /\ op' = "Data::from_chunk"
    /\ UNCHANGED <<overflow_checks, layout, bytes, visited, wav, chunk, data, args, depth, run>>

Call_Fmt_to_chunk(f) ==
    /\ op = "init"
    /\ op' = "Fmt::to_chunk"
    /\ layout' = NoLayout
    /\ bytes' = <<>>
    /\ visited' = <<>>
    /\ wav' = None
    /\ data' = None
    /\ fmt' = Ok(f)
    /\ ret' = Fmt_to_chunk(f)
    /\ chunk' = IF ret'.tag = "Ok" THEN ret' ELSE None
    /\ args' = None
    /\ depth' = 0
    /\ UNCHANGED <<overflow_checks, run>>

Call_ChunkId_from_bytes(b) ==
    /\ op = "init"
    /\ op' = "ChunkId::from_bytes"
    /\ layout' = NoLayout
    /\ bytes' = b
    /\ ret' = Ok(ChunkId_from_bytes(b))
    /\ visited' = <<>>
    /\ wav' = None
    /\ chunk' = None
    /\ fmt' = None
    /\ data' = None
    /\ args' = None
    /\ depth' = 0
    /\ UNCHANGED <<overflow_checks, run>>

\* parsing::parse_chunks(header, bytes), the top-level call.
Call_parsing_parse_chunks(header, b) ==
    /\ op = "init"
    /\ op' = "parsing::parse_chunks"
    /\ layout' = NoLayout
    /\ bytes' = b
    /\ fmt' = Ok(header)
    /\ LET r == parsing_parse_chunks(header, b, 0)
       IN  /\ ret' = r.ret
           /\ depth' = r.depth
    /\ visited' = <<>>
    /\ wav' = None
    /\ chunk' = None
    /\ data' = None
    /\ args' = None
    /\ UNCHANGED <<overflow_checks, run>>

Call_Fmt_from_chunk ==
    /\ op \in {"Fmt::to_chunk", "Chunk::from_bytes"}
    /\ chunk.tag = "Ok"
    /\ ret' = Fmt_from_chunk(chunk.val)
    /\ op' = "Fmt::from_chunk"
    /\ UNCHANGED <<overflow_checks, layout, bytes, visited, wav, chunk, fmt, data, args, depth, run>>

Next ==
    \/ \E l \in FileLayouts \cup RecordLayouts : Load(l)
    \/ Call_parse_chunks
    \/ Call_Wav_from_bytes
    \/ \E d \in DataInputs, sr \in SampleRateArgs, nc \in ChannelArgs :
           Call_Wav_from_data(d, sr, nc)
    \/ Call_Wav_to_bytes
    \/ Call_Chunk_from_bytes
    \/ \E d \in DataInputs : Call_Data_to_chunk(d)
    \/ \E f \in DepthFmts : Call_Data_from_chunk(f)
    \/ \E f \in FmtInputs : Call_Fmt_to_chunk(f)
    \/ Call_Fmt_from_chunk
    \/ \E b \in IdInputs : Call_ChunkId_from_bytes(b)
    \/ \E header \in DepthFmts, b \in NestedInputs : Call_parsing_parse_chunks(header, b)

Spec == Init /\ [][Next]_vars

---------------------------------------------------------------------------
(* Wav::from_bytes followed loop by loop: one action per iteration of the   *)
(* while loop of parse_chunks and of the while loop of Data::from_chunk,    *)
(* and one per stretch of straight-line code between them.                  *)

\* The call ends with result r.
Done(r) == [r EXCEPT !.pc = "done"]

\* The caller reads a file and calls Wav::from_bytes: parse_chunks up to its
\* while loop.
Begin_Wav_from_bytes(l) ==
    /\ op = "init"
    /\ op' = "Wav::from_bytes"
    /\ layout' = l
    /\ bytes' = Build(l)
    /\ LET riff == Chunk_from_bytes(bytes')
       IN  IF riff.tag # "Ok"
           THEN ret' = riff /\ run' = Done(run)
           ELSE IF riff.val.id # Tag("Riff")
           THEN ret' = Err("NoRiffChunkFound", 0) /\ run' = Done(run)
           ELSE IF Len(riff.val.bytes) < 4
           THEN ret' = Panic /\ run' = Done(run)
           ELSE IF SubSeq(riff.val.bytes, 1, 4) # ChunkTag_to_bytes(Tag("Wave"))
           THEN ret' = Err("NoWaveTagFound", 0) /\ run' = Done(run)
           ELSE /\ ret' = None
                /\ run' = [run EXCEPT !.pc = "parse_chunks", !.rb = riff.val.bytes,
                                       !.index = 4]
    /\ visited' = <<>>
    /\ wav' = None
    /\ chunk' = None
    /\ fmt' = None
    /\ data' = None
    /\ args' = None
    /\ depth' = 0
    /\ UNCHANGED overflow_checks

\* One iteration of the while loop of parse_chunks.
Step_parse_chunks ==
    /\ run.pc = "parse_chunks"
    /\ run.index < Len(run.rb)
    /\ LET c == Chunk_from_bytes(SubSeq(run.rb, run.index + 1, Len(run.rb)))
       IN  IF c.tag # "Ok"
           THEN /\ ret' = c
                /\ run' = [Done(run) EXCEPT !.parse_iterations = @ + 1]
           ELSE /\ ret' = ret
                /\ run' = [run EXCEPT !.index = next_index(run.index, Len(c.val.bytes)),
                                       !.chunks = Append(@, c.val),
                                       !.parse_iterations = @ + 1]
    /\ visited' = Append(visited, run.index)
    /\ UNCHANGED <<overflow_checks, op, layout, bytes, wav, chunk, fmt, data, args, depth>>

\* The while loop of parse_chunks ends; Wav::from_bytes looks up and decodes
\* the fmt chunk, looks up the data chunk, and Data::from_chunk picks the
\* variant, up to its while loop.
Exit_parse_chunks ==
    /\ run.pc = "parse_chunks"
    /\ ~(run.index < Len(run.rb))
    /\ LET fc == find(run.chunks, "Fmt")
           f  == IF fc.tag = "None" THEN Err("NoFmtChunkFound", 0) ELSE Fmt_from_chunk(fc.val)
           dc == find(run.chunks, "Data")
       IN  IF f.tag # "Ok"
           THEN ret' = f /\ run' = Done(run)
           ELSE IF dc.tag = "None"
           THEN ret' = Err("NoDataChunkFound", 0) /\ run' = Done(run)
           ELSE IF f.val.bit_depth \notin {8, 16, 24}
           THEN ret' = Err("UnsupportedBitDepth", f.val.bit_depth) /\ run' = Done(run)
           ELSE /\ ret' = ret
                /\ run' = [run EXCEPT !.pc = "Data::from_chunk", !.f = f,
                                       !.variant = IF f.val.bit_depth = 8 THEN "BitDepth8"
                                                   ELSE IF f.val.bit_depth = 16 THEN "BitDepth16"
                                                   ELSE "BitDepth24",
                                       !.db = dc.val.bytes]
    /\ UNCHANGED <<overflow_checks, op, layout, bytes, visited, wav, chunk, fmt, data, args, depth>>

\* One iteration of the while loop of Data::from_chunk.
Step_Data_from_chunk ==
    /\ run.pc = "Data::from_chunk"
    /\ run.pos < Len(run.db)
    /\ LET s == read_sample(run.variant, run.db, run.pos)
       IN  IF s.tag # "Ok"
           THEN /\ ret' = s
                /\ run' = [Done(run) EXCEPT !.decode_iterations = @ + 1]
           ELSE /\ ret' = ret
                /\ run' = [run EXCEPT !.pos = @ + (run.f.val.bit_depth \div 8),
                                       !.samples = Append(@, s.val),
                                       !.decode_iterations = @ + 1]
    /\ UNCHANGED <<overflow_checks, op, layout, bytes, visited, wav, chunk, fmt, data, args, depth>>

\* The while loop of Data::from_chunk ends; Wav::from_bytes builds the
\* document and returns it.
Exit_Data_from_chunk ==
    /\ run.pc = "Data::from_chunk"
    /\ ~(run.pos < Len(run.db))
    /\ ret' = Ok([fmt |-> run.f.val,
                  data |-> [variant |-> run.variant, samples |-> run.samples],
                  chunks |-> SelectSeq(run.chunks, is_ancillary)])
    /\ wav' = ret'
    /\ run' = Done(run)
    /\ UNCHANGED <<overflow_checks, op, layout, bytes, visited, chunk, fmt, data, args, depth>>

LoopNext ==
    \/ \E l \in LoopLayouts : Begin_Wav_from_bytes(l)
    \/ Step_parse_chunks
    \/ Exit_parse_chunks
    \/ Step_Data_from_chunk
    \/ Exit_Data_from_chunk

\* A call that has begun runs on: the code is sequential and nothing in it
\* waits.
LoopSpec == Init /\ [][LoopNext]_vars /\ WF_vars(LoopNext)

---------------------------------------------------------------------------
(* Vocabulary of the properties *)

Returned(r) == r.tag \in {"Ok", "Err"}

GoodHeader(l) ==
    l.kind = "file" /\ l.riff = RIFF_BYTES /\ l.form = WAVE_BYTES /\ l.keep = -1

PiecesTagged(l, tag) == {i \in 1..Len(l.chunks) : l.chunks[i].tag = tag}

\* The fmt chunks a PCM producer writes: audio format 1, 16 bytes, a depth
\* of 8, 16 or 24 bits.
PcmFmtPieces == {P_fmt16, P_fmt24, P_fmt8, P_fmtBig}

PieceDepth(p) == u16_from_le_bytes(SubSeq(p.payload, 15, 16))

\* The chunk a piece stands for: its tag and its payload, without padding.
PieceChunk(p) == [id |-> ChunkTag_from_bytes(p.tag), bytes |-> p.payload]

\* The size field of the chunk header at offset i of the RIFF payload.
DeclaredLength(b, i) == u32_from_le_bytes(SubSeq(b, 8 + i + 5, 8 + i + 8))

VariantDepth(variant) ==
    IF variant = "BitDepth8" THEN 8 ELSE IF variant = "BitDepth16" THEN 16 ELSE 24

InRange(d) ==
    \A k \in 1..Len(d.samples) :
        IF d.variant = "BitDepth8" THEN d.samples[k] \in 0..255
        ELSE IF d.variant = "BitDepth16" THEN d.samples[k] \in -32768..32767
        ELSE d.samples[k] \in -8388608..8388607

---------------------------------------------------------------------------
(* C1 *)

\* C1: on every byte buffer, parse_chunks and Wav::from_bytes return a value
\* (Ok or an Error) and never panic on an out-of-bounds read.
C1_NeverTraps ==
    op \in {"parse_chunks", "Wav::from_bytes"} => Returned(ret)

---------------------------------------------------------------------------
(* C2 *)

\* C2: after a chunk read at offset i with declared length L, parse_chunks
\* reads the next chunk header at i + 8 + L, plus exactly one padding byte
\* when L is odd.
C2_PaddingSkipsOneByte ==
    op = "parse_chunks" =>
        \A k \in 1..(Len(visited) - 1) :
            LET L == DeclaredLength(bytes, visited[k])
            IN  visited[k + 1] = visited[k] + 8 + L + (L % 2)

---------------------------------------------------------------------------
(* C3 *)

\* C3: decoding the chunk that Data::to_chunk made of a sample buffer, with
\* a descriptor of the buffer's own bit depth, returns Ok with the same
\* variant and the same samples in the same order (24-bit samples within
\* -8388608..8388607).
C3_DataRoundTrip ==
    (/\ op = "Data::from_chunk"
     /\ data.tag = "Ok"
     /\ InRange(data.val)
     /\ fmt.val.bit_depth = VariantDepth(data.val.variant))
        => ret = Ok(data.val)

\* A 24-bit buffer holding both extremes and a negative sample came back whole.
C3_Witness ==
    /\ op = "Data::from_chunk"
    /\ data.tag = "Ok"
    /\ data.val = [variant |-> "BitDepth24", samples |-> <<-8388608, 8388607>>]
    /\ fmt.val.bit_depth = 24
    /\ ret = Ok(data.val)

---------------------------------------------------------------------------
(* C4 *)

\* C4: for every Fmt with a bit depth of 8, 16 or 24, Fmt::to_chunk completes
\* and Fmt::from_chunk of its result returns Ok with the same sample rate,
\* channel count and bit depth.
C4_FmtRoundTrip ==
    /\ (op = "Fmt::to_chunk" /\ fmt.val.bit_depth \in {8, 16, 24}) => ret.tag = "Ok"
    /\ (op = "Fmt::from_chunk" /\ fmt.tag = "Ok" /\ fmt.val.bit_depth \in {8, 16, 24})
           => ret = Ok(fmt.val)

---------------------------------------------------------------------------
(* C5 *)

\* The byte-rate and block-align fields of a fmt payload state the exact
\* values sample_rate * bit_depth * num_channels / 8 and
\* num_channels * bit_depth / 8.
ConsistentFmt(p) ==
    LET nc == u16_from_le_bytes(SubSeq(p.payload, 3, 4))
        bd == PieceDepth(p)
        exact == div_le(mul_le(mul_le(SubSeq(p.payload, 5, 8), bd, 1, 0), nc, 1, 0), 8, 10, 0)
    IN  /\ SubSeq(exact, 1, 4) = SubSeq(p.payload, 9, 12)
        /\ \A k \in 5..10 : exact[k] = 0
        /\ u16_from_le_bytes(SubSeq(p.payload, 13, 14)) * 8 = nc * bd

\* RIFF, the size, WAVE, a consistent 16-byte PCM fmt chunk, then a data
\* chunk of whole samples with no byte after it.
Canonical(l) ==
    /\ GoodHeader(l)
    /\ Len(l.chunks) = 2
    /\ l.chunks[1] \in PcmFmtPieces
    /\ ConsistentFmt(l.chunks[1])
    /\ l.chunks[2].tag = DATA_BYTES
    /\ Len(l.chunks[2].payload) % (PieceDepth(l.chunks[1]) \div 8) = 0
    /\ Len(l.chunks[2].payload) % 2 = 0

\* C5: on every buffer in the canonical layout, Wav::from_bytes succeeds and
\* to_bytes of the document returns the buffer byte for byte.
C5_DocumentRoundTrip ==
    /\ (op = "Wav::from_bytes" /\ Canonical(layout)) => ret.tag = "Ok"
    /\ (op = "Wav::to_bytes" /\ Canonical(layout)) => ret = Ok(bytes)

---------------------------------------------------------------------------
(* C6 *)

CountTagged(chunks, kind) == Cardinality({i \in 1..Len(chunks) : chunks[i].id = Tag(kind)})

FirstTagged(chunks, kind) ==
    chunks[CHOOSE i \in 1..Len(chunks) :
               /\ chunks[i].id = Tag(kind)
               /\ \A j \in 1..(i - 1) : chunks[j].id # Tag(kind)]

---------------------------------------------------------------------------
(* C7 *)

\* A well-framed file with one PCM fmt chunk, one data chunk of whole
\* samples and any other chunks.
OneFmtOneData(l) ==
    /\ GoodHeader(l)
    /\ Cardinality(PiecesTagged(l, FMT_BYTES)) = 1
    /\ Cardinality(PiecesTagged(l, DATA_BYTES)) = 1
    /\ \A i \in PiecesTagged(l, FMT_BYTES) :
           /\ l.chunks[i] \in PcmFmtPieces
           /\ \A j \in PiecesTagged(l, DATA_BYTES) :
                  Len(l.chunks[j].payload) % (PieceDepth(l.chunks[i]) \div 8) = 0

IsOther(p) == p.tag # FMT_BYTES /\ p.tag # DATA_BYTES

RECURSIVE Ancillary(_, _)
Ancillary(ps, k) ==
    IF k > Len(ps) THEN <<>>
    ELSE (IF IsOther(ps[k]) THEN <<PieceChunk(ps[k])>> ELSE <<>>) \o Ancillary(ps, k + 1)

\* C7: on every well-framed file with one fmt chunk, one data chunk and any
\* chunks of other tags, Wav::from_bytes succeeds and wav.chunks is exactly
\* the other chunks, in their order, each with its tag and payload unchanged.
C7_AncillaryPreserved ==
    (op = "Wav::from_bytes" /\ OneFmtOneData(layout)) =>
        /\ ret.tag = "Ok"
        /\ ret.val.chunks = Ancillary(layout.chunks, 1)

---------------------------------------------------------------------------
(* C8 *)

\* C8: for a bit depth d of 8, 16 or 24 and a payload of any length n,
\* Data::from_chunk returns Ok with exactly n div (d / 8) samples; trailing
\* bytes that form no whole sample are dropped without error or panic.
C8_TrailingBytesDropped ==
    (op = "Data::from_chunk" /\ fmt.val.bit_depth \in {8, 16, 24}) =>
        /\ ret.tag = "Ok"
        /\ Len(ret.val.samples) = Len(chunk.val.bytes) \div (fmt.val.bit_depth \div 8)

---------------------------------------------------------------------------
(* C9 *)

\* A well-framed file whose fmt chunks, if any, are PCM fmt chunks.
ValidFile(l) ==
    /\ GoodHeader(l)
    /\ \A i \in PiecesTagged(l, FMT_BYTES) : l.chunks[i] \in PcmFmtPieces

\* C9: a structurally valid file with no Fmt-tagged chunk makes
\* Wav::from_bytes return NoFmtChunkFound, and one with a valid fmt chunk
\* but no Data-tagged chunk makes it return NoDataChunkFound.
C9_MissingChunkErrors ==
    (op = "Wav::from_bytes" /\ ValidFile(layout)) =>
        /\ PiecesTagged(layout, FMT_BYTES) = {} => ret = Err("NoFmtChunkFound", 0)
        /\ (PiecesTagged(layout, FMT_BYTES) # {} /\ PiecesTagged(layout, DATA_BYTES) = {})
               => ret = Err("NoDataChunkFound", 0)

---------------------------------------------------------------------------
(* C10 *)

\* The buffer starts with a complete record tagged RIFF whose payload does
\* not begin with the bytes WAVE.
RiffWithoutWave(b) ==
    /\ Len(b) >= 8
    /\ SubSeq(b, 1, 4) = RIFF_BYTES
    /\ LET size == u32_from_le_bytes(SubSeq(b, 5, 8))
       IN  /\ 8 + size <= Len(b)
           /\ (size < 4 \/ SubSeq(b, 9, 12) # WAVE_BYTES)

\* C10: on every buffer whose first record is tagged RIFF and whose RIFF
\* payload does not begin with WAVE, parse_chunks returns NoWaveTagFound,
\* whatever chunks follow, and does not panic.
C10_NoWaveTagFound ==
    (op = "parse_chunks" /\ RiffWithoutWave(bytes)) => ret = Err("NoWaveTagFound", 0)

---------------------------------------------------------------------------
(* C11 *)

\* C11: on every buffer whose first 4 bytes are not the tag RIFF,
\* parse_chunks returns NoRiffChunkFound, whatever the length field and the
\* bytes after it are.
C11_NoRiffChunkFound ==
    (op = "parse_chunks" /\ Len(bytes) >= 4 /\ SubSeq(bytes, 1, 4) # RIFF_BYTES)
        => ret = Err("NoRiffChunkFound", 0)

---------------------------------------------------------------------------
(* C12 *)

\* C12: for every payload whose audio format field v is not 1,
\* Fmt::from_chunk returns UnsupportedFormat(v) carrying that value, and it
\* returns a descriptor only when the field is 1.
C12_UnsupportedFormat ==
    (op = "Fmt::from_chunk" /\ Len(chunk.val.bytes) >= 2) =>
        /\ AudioFormat(chunk.val.bytes) # 1
               => ret = Err("UnsupportedFormat", AudioFormat(chunk.val.bytes))
        /\ ret.tag = "Ok" => AudioFormat(chunk.val.bytes) = 1

\* A payload whose audio format field is 65535 was rejected with that value.
C12_Witness ==
    /\ op = "Fmt::from_chunk"
    /\ Len(chunk.val.bytes) >= 2
    /\ AudioFormat(chunk.val.bytes) = 65535
    /\ ret = Err("UnsupportedFormat", 65535)

---------------------------------------------------------------------------
(* C13 *)

\* The buffer tokenizes into chunks of which the first Fmt-tagged one is a
\* PCM descriptor of at least 16 bytes stating bit depth n, and there is a
\* Data-tagged chunk.
StatesDepth(b, n) ==
    LET cs == parse_chunks(b)
    IN  /\ cs.tag = "Ok"
        /\ CountTagged(cs.val, "Fmt") >= 1
        /\ CountTagged(cs.val, "Data") >= 1
        /\ LET p == FirstTagged(cs.val, "Fmt").bytes
           IN  /\ Len(p) >= 16
               /\ AudioFormat(p) = 1
               /\ u16_from_le_bytes(SubSeq(p, 15, 16)) = n

\* C13: for every bit depth n outside {8, 16, 24}, Data::from_chunk returns
\* UnsupportedBitDepth(n) on any payload, the empty one included, and
\* Wav::from_bytes of a file whose fmt chunk states such a depth returns that
\* error instead of a document.
C13_UnsupportedBitDepth ==
    /\ (op = "Data::from_chunk" /\ fmt.val.bit_depth \notin {8, 16, 24})
           => ret = Err("UnsupportedBitDepth", fmt.val.bit_depth)
    /\ op = "Wav::from_bytes" =>
           \A n \in BitDepths \ {8, 16, 24} :
               StatesDepth(bytes, n) => ret = Err("UnsupportedBitDepth", n)

\* A file with a 12-bit fmt chunk and a data chunk was rejected with
\* UnsupportedBitDepth(12).
C13_Witness ==
    /\ op = "Wav::from_bytes"
    /\ GoodHeader(layout)
    /\ layout.chunks = <<P_fmt12, P_data3>>
    /\ ret = Err("UnsupportedBitDepth", 12)

\* Data::from_chunk rejected an empty payload for a bit depth of 0.
C13_WitnessEmpty ==
    /\ op = "Data::from_chunk"
    /\ chunk.val.bytes = <<>>
    /\ fmt.val.bit_depth = 0
    /\ ret = Err("UnsupportedBitDepth", 0)

---------------------------------------------------------------------------
(* C14 *)

\* The two's-complement value of the 3-byte little-endian group b0 b1 b2.
SignExtended24(b0, b1, b2) ==
    b0 + 256 * b1 + 65536 * b2 - (IF b2 >= 128 THEN 16777216 ELSE 0)

\* C14: every 24-bit sample Data::from_chunk decodes is the two's-complement
\* value of its 3-byte group, b0 + 256*b1 + 65536*b2, less 16777216 when the
\* top bit of b2 is set, and so lies in -8388608..8388607.
C14_SignExtension24 ==
    (op = "Data::from_chunk" /\ fmt.val.bit_depth = 24 /\ ret.tag = "Ok") =>
        /\ ret.val.variant = "BitDepth24"
        /\ Len(ret.val.samples) * 3 = Len(chunk.val.bytes)
        /\ \A k \in 1..Len(ret.val.samples) :
               /\ ret.val.samples[k] = SignExtended24(chunk.val.bytes[3 * k - 2],
                                                      chunk.val.bytes[3 * k - 1],
                                                      chunk.val.bytes[3 * k])
               /\ ret.val.samples[k] \in -8388608..8388607

\* The groups ff ff 7f and 00 00 80 were decoded as 8388607 and -8388608.
C14_Witness ==
    /\ op = "Data::from_chunk"
    /\ fmt.val.bit_depth = 24
    /\ chunk.val.bytes = <<255, 255, 127, 0, 0, 128>>
    /\ ret = Ok([variant |-> "BitDepth24", samples |-> <<8388607, -8388608>>])

---------------------------------------------------------------------------
(* C15 *)

\* The exact value of sample_rate * bit_depth * num_channels / 8, as 10
\* little-endian limbs.
ExactByteRate(f) ==
    div_le(mul_le(mul_le(u32_to_le_bytes(f.sample_rate), f.bit_depth, 1, 0),
                  f.num_channels, 1, 0), 8, 10, 0)

\* The exact value fits the 4-byte field.
ByteRateFits(f) == \A k \in 5..10 : ExactByteRate(f)[k] = 0

\* The exact value of num_channels * bit_depth / 8, as 5 little-endian limbs.
ExactBlockAlign(f) ==
    div_le(mul_le(u16_to_le_bytes(f.num_channels), f.bit_depth, 1, 0), 8, 5, 0)

\* The exact value fits the 2-byte field.
BlockAlignFits(f) == \A k \in 3..5 : ExactBlockAlign(f)[k] = 0

\* C15: for every descriptor, Fmt::to_chunk completes and writes the exact
\* values sample_rate * bit_depth * num_channels / 8 in the byte-rate field
\* and num_channels * bit_depth / 8 in the block-align field, wherever those
\* values fit their fields: no intermediate product wraps or traps.
C15_ExactDerivedFields ==
    (op = "Fmt::to_chunk" /\ ByteRateFits(fmt.val) /\ BlockAlignFits(fmt.val)) =>
        /\ ret.tag = "Ok"
        /\ SubSeq(ret.val.bytes, 9, 12) = SubSeq(ExactByteRate(fmt.val), 1, 4)
        /\ SubSeq(ret.val.bytes, 13, 14) = SubSeq(ExactBlockAlign(fmt.val), 1, 2)

---------------------------------------------------------------------------
(* C16 *)

\* C16: in every buffer Wav::to_bytes returns, bytes 0..4 are RIFF, bytes
\* 8..12 are WAVE and the little-endian u32 at bytes 4..8 is the length of
\* the buffer less 8.
C16_RiffHeader ==
    (op = "Wav::to_bytes" /\ ret.tag = "Ok") =>
        /\ Len(ret.val) >= 12
        /\ SubSeq(ret.val, 1, 4) = RIFF_BYTES
        /\ SubSeq(ret.val, 9, 12) = WAVE_BYTES
        /\ u32_from_le_bytes(SubSeq(ret.val, 5, 8)) = Len(ret.val) - 8

\* A buffer of 50 bytes was returned with the size field 42.
C16_Witness ==
    /\ op = "Wav::to_bytes"
    /\ ret.tag = "Ok"
    /\ Len(ret.val) = 50
    /\ SubSeq(ret.val, 5, 8) = <<42, 0, 0, 0>>

---------------------------------------------------------------------------
(* C17 *)

\* The bytes the samples of a document take: sample count * (bit depth / 8).
SampleBytes(w) == Data_len(w.data) * (w.fmt.bit_depth \div 8)

\* C17: the buffer Wav::to_bytes returns holds the fmt chunk at offset 12
\* (tag "fmt ", size 16) and the data chunk at offset 36, whose size field
\* is sample count * (bit depth / 8) and which is followed by that many
\* bytes and nothing else: the length is 44 + sample count * (bit depth / 8),
\* without a padding byte even when that is odd.
C17_OutputLayout ==
    (op = "Wav::to_bytes" /\ ret.tag = "Ok") =>
        /\ Len(ret.val) = 44 + SampleBytes(wav.val)
        /\ SubSeq(ret.val, 13, 16) = FMT_BYTES
        /\ SubSeq(ret.val, 17, 20) = <<16, 0, 0, 0>>
        /\ SubSeq(ret.val, 37, 40) = DATA_BYTES
        /\ SubSeq(ret.val, 41, 44) = u32_to_le_bytes(SampleBytes(wav.val))

\* A document of one 24-bit sample was written as 47 bytes.
C17_Witness ==
    /\ op = "Wav::to_bytes"
    /\ wav.val.data = [variant |-> "BitDepth24", samples |-> <<-1>>]
    /\ ret.tag = "Ok"
    /\ Len(ret.val) = 47

---------------------------------------------------------------------------
(* C18 *)

\* C18: for every input, Wav::from_data returns a document whose bit depth
\* is 8, 16 or 24 by the Data variant, whose sample rate and channel count
\* are the given usize arguments, not truncated, whose data is the given
\* buffer and whose list of other chunks is empty.
C18_FromDataKeepsArguments ==
    op = "Wav::from_data" =>
        /\ wav.tag = "Ok"
        /\ wav.val.fmt.bit_depth = VariantDepth(data.val.variant)
        /\ usize_to_le_bytes(wav.val.fmt.sample_rate) = args.sample_rate
        /\ usize_to_le_bytes(wav.val.fmt.num_channels) = args.num_channels
        /\ wav.val.data = data.val
        /\ wav.val.chunks = <<>>

---------------------------------------------------------------------------
(* C19 *)

\* C19: Wav::to_bytes leaves the document unchanged and returns what it
\* returns for the document with the same fmt and data and no other chunks;
\* the buffer it returns tokenizes into Fmt and Data chunks alone, so the
\* other chunks of a file read by Wav::from_bytes are dropped.
C19_AncillaryNotWritten ==
    [][op' = "Wav::to_bytes" =>
          /\ wav' = wav
          /\ ret' = Wav_to_bytes([wav.val EXCEPT !.chunks = <<>>])
          /\ ret'.tag = "Ok" =>
                 LET cs == parse_chunks(ret'.val)
                 IN  /\ cs.tag = "Ok"
                     /\ \A i \in 1..Len(cs.val) : ~is_ancillary(cs.val[i])]_vars

\* A document read from a file with a chunk of another tag was written as
\* a buffer that is shorter than the file.
C19_Witness ==
    /\ op = "Wav::to_bytes"
    /\ wav.tag = "Ok"
    /\ Len(wav.val.chunks) = 1
    /\ ret.tag = "Ok"
    /\ Len(ret.val) < Len(bytes)

---------------------------------------------------------------------------
(* C20 *)

\* The payloads that differ from b in bytes [8, 14) or after offset 16 only.
SameButRates(b) ==
    {SubSeq(b, 1, 8) \o x \o SubSeq(b, 15, 16) \o t :
        x \in {SubSeq(b, 9, 14), <<0, 0, 0, 0, 0, 0>>, <<255, 255, 255, 255, 255, 255>>},
        t \in {SubSeq(b, 17, Len(b)), <<>>, <<2, 0>>}}

\* C20: for every fmt payload of at least 16 bytes with audio format 1,
\* Fmt::from_chunk returns num_channels = the u16 at [2, 4), sample_rate =
\* the u32 at [4, 8) and bit_depth = the u16 at [14, 16); payloads that
\* differ in bytes [8, 14) or after offset 16 only decode to the same
\* descriptor.
C20_FmtFieldOffsets ==
    (/\ op = "Fmt::from_chunk"
     /\ Len(chunk.val.bytes) >= 16
     /\ AudioFormat(chunk.val.bytes) = 1) =>
        /\ ret = Ok([num_channels |-> u16_from_le_bytes(SubSeq(chunk.val.bytes, 3, 4)),
                     sample_rate  |-> u32_from_le_bytes(SubSeq(chunk.val.bytes, 5, 8)),
                     bit_depth    |-> u16_from_le_bytes(SubSeq(chunk.val.bytes, 15, 16))])
        /\ \A q \in SameButRates(chunk.val.bytes) :
               Fmt_from_chunk([id |-> chunk.val.id, bytes |-> q]) = ret

\* An 18-byte payload was decoded by its first 16 bytes.
C20_Witness ==
    /\ op = "Fmt::from_chunk"
    /\ chunk.val.bytes = P_fmtExt.payload
    /\ ret = Ok([num_channels |-> 2, sample_rate |-> 22050, bit_depth |-> 16])

\* A payload whose byte rate and block align are arbitrary was decoded
\* without regard to them.
C20_WitnessRates ==
    /\ op = "Fmt::from_chunk"
    /\ chunk.val.bytes = P_fmtOddRates.payload
    /\ ret = Ok([num_channels |-> 2, sample_rate |-> 22050, bit_depth |-> 16])

---------------------------------------------------------------------------
(* C21 *)

\* C21: parsing::parse_chunks follows nested LIST chunks to a fixed depth
\* limit only, whatever the input: it never goes as deep as the deepest
\* nesting of the generated buffers, MaxNest LIST chunks, which it rejects
\* with an error instead.
C21_DepthLimited ==
    op = "parsing::parse_chunks" =>
        /\ depth < MaxNest
        /\ bytes \in {Nested(MaxNest, leaf) : leaf \in Leaves} => ret.tag = "Err"

---------------------------------------------------------------------------
(* C22 *)

\* The layout l with the chunks at positions i and j exchanged.
Swapped(l, i, j) ==
    [l EXCEPT !.chunks = [k \in 1..Len(l.chunks) |->
                             IF k = i THEN l.chunks[j]
                             ELSE IF k = j THEN l.chunks[i] ELSE l.chunks[k]]]

\* C22: a well-framed buffer with one fmt chunk and one data chunk parses
\* to the same result, the same fmt and the same samples, as the buffer in
\* which the two chunks have changed places.
C22_OrderIndependent ==
    (/\ op = "Wav::from_bytes"
     /\ GoodHeader(layout)
     /\ Cardinality(PiecesTagged(layout, FMT_BYTES)) = 1
     /\ Cardinality(PiecesTagged(layout, DATA_BYTES)) = 1) =>
        \A i \in PiecesTagged(layout, FMT_BYTES), j \in PiecesTagged(layout, DATA_BYTES) :
            LET other == Wav_from_bytes(Build(Swapped(layout, i, j)))
            IN  /\ other.tag = ret.tag
                /\ ret.tag = "Ok" => /\ other.val.fmt = ret.val.fmt
                                     /\ other.val.data = ret.val.data
                /\ ret.tag = "Err" => other = ret

---------------------------------------------------------------------------
(* C23 *)

\* The error that comes first in the order NoRiffChunkFound, NoWaveTagFound,
\* NoFmtChunkFound, UnsupportedFormat, NoDataChunkFound, UnsupportedBitDepth
\* among those the buffer b gives cause for, read off the bytes of b and
\* the chunks it tokenizes into.
FirstError(b) ==
    IF SubSeq(b, 1, 4) # RIFF_BYTES THEN Err("NoRiffChunkFound", 0)
    ELSE IF SubSeq(b, 9, 12) # WAVE_BYTES THEN Err("NoWaveTagFound", 0)
    ELSE LET cs == parse_chunks(b).val
         IN  IF CountTagged(cs, "Fmt") = 0 THEN Err("NoFmtChunkFound", 0)
             ELSE IF AudioFormat(FirstTagged(cs, "Fmt").bytes) # 1
                  THEN Err("UnsupportedFormat", AudioFormat(FirstTagged(cs, "Fmt").bytes))
             ELSE IF CountTagged(cs, "Data") = 0 THEN Err("NoDataChunkFound", 0)
             ELSE Err("UnsupportedBitDepth",
                      u16_from_le_bytes(SubSeq(FirstTagged(cs, "Fmt").bytes, 15, 16)))

\* C23: an error of Wav::from_bytes is the first one, in the order
\* NoRiffChunkFound, NoWaveTagFound, NoFmtChunkFound, UnsupportedFormat,
\* NoDataChunkFound, UnsupportedBitDepth, that the buffer gives cause for:
\* chunks without fmt and data give NoFmtChunkFound, and a non-PCM fmt chunk
\* gives UnsupportedFormat also when there is no data chunk.
C23_ErrorPrecedence ==
    op = "Wav::from_bytes" =>
        /\ ret.tag = "Err" => ret = FirstError(bytes)
        /\ parse_chunks(bytes).tag = "Ok" =>
               LET cs == parse_chunks(bytes).val
               IN  /\ CountTagged(cs, "Fmt") = 0 => ret = Err("NoFmtChunkFound", 0)
                   /\ (/\ CountTagged(cs, "Fmt") > 0
                       /\ Len(FirstTagged(cs, "Fmt").bytes) >= 2
                       /\ AudioFormat(FirstTagged(cs, "Fmt").bytes) # 1)
                          => ret = Err("UnsupportedFormat",
                                       AudioFormat(FirstTagged(cs, "Fmt").bytes))

\* A file whose only chunk is a non-PCM fmt chunk was rejected with
\* UnsupportedFormat(3), not with NoDataChunkFound.
C23_Witness ==
    /\ op = "Wav::from_bytes"
    /\ GoodHeader(layout)
    /\ layout.chunks = <<P_fmtNonPcm>>
    /\ ret = Err("UnsupportedFormat", 3)

\* A file with neither the RIFF tag nor the WAVE marker was rejected with
\* NoRiffChunkFound.
C23_WitnessHeader ==
    /\ op = "Wav::from_bytes"
    /\ layout.riff = RIFX_BYTES
    /\ layout.form = WAVV_BYTES
    /\ ret = Err("NoRiffChunkFound", 0)

---------------------------------------------------------------------------
(* C24 *)

\* C24: every document Wav::from_bytes or Wav::from_data returns has a bit
\* depth of 8, 16 or 24, a Data variant of that depth, and no chunk tagged
\* Fmt or Data among its other chunks.
C24_DocumentInvariant ==
    (op \in {"Wav::from_bytes", "Wav::from_data"} /\ ret.tag = "Ok") =>
        /\ ret.val.fmt.bit_depth \in {8, 16, 24}
        /\ ret.val.data.variant \in {"BitDepth8", "BitDepth16", "BitDepth24"}
        /\ VariantDepth(ret.val.data.variant) = ret.val.fmt.bit_depth
        /\ \A i \in 1..Len(ret.val.chunks) :
               ret.val.chunks[i].id \notin {Tag("Fmt"), Tag("Data")}

\* A file of two fmt chunks and a data chunk gave a 24-bit document with a
\* 24-bit buffer and neither fmt chunk among its other chunks.
C24_Witness ==
    /\ op = "Wav::from_bytes"
    /\ GoodHeader(layout)
    /\ Len(layout.chunks) = 3
    /\ Cardinality(PiecesTagged(layout, FMT_BYTES)) = 2
    /\ ret.tag = "Ok"
    /\ ret.val.fmt.bit_depth = 24
    /\ ret.val.data.variant = "BitDepth24"
    /\ ret.val.chunks = <<>>

---------------------------------------------------------------------------
(* C25 *)

\* C25: the loops of Wav::from_bytes terminate.  Every iteration of the
\* loop of parse_chunks moves the read index on by at least 8, also past a
\* zero-length chunk, so that it runs at most len / 8 times; every
\* iteration of the loop of Data::from_chunk moves the position on by at
\* least 1, the loop being entered for bit depths 8, 16 and 24 only; and
\* every call that has begun comes to its end.
C25_LoopsTerminate ==
    /\ [][(run.pc = "parse_chunks" /\ run'.pc = "parse_chunks")
              => run'.index >= run.index + 8]_vars
    /\ [][(run.pc = "Data::from_chunk" /\ run'.pc = "Data::from_chunk")
              => run'.pos >= run.pos + 1]_vars
    /\ [](run.parse_iterations <= Len(bytes) \div 8)
    /\ [](run.pc = "Data::from_chunk" => run.f.val.bit_depth \in {8, 16, 24})
    /\ [](run.decode_iterations <= Len(run.db))
    /\ (run.pc # "idle") ~> (run.pc = "done")

\* A call on a file with a zero-length chunk, a fmt chunk and a data chunk
\* came to its end after 3 iterations of the first loop and 3 of the second.
C25_Witness ==
    /\ run.pc = "done"
    /\ layout.chunks = <<P_rndm0, P_fmt16>> \o <<P_data6>>
    /\ run.parse_iterations = 3
    /\ run.decode_iterations = 3
    /\ ret.tag = "Ok"

---------------------------------------------------------------------------
(* C26 *)

\* C26: ChunkId::from_bytes maps every documented identifier to the variant
\* of its own name, so distinct identifiers to distinct values (IART to
\* ChunkId::IART), and every other identifier to Other carrying its 4 bytes.
C26_ChunkIdOwnVariant ==
    op = "ChunkId::from_bytes" =>
        /\ \A n \in DOMAIN DocumentedIds :
               bytes = DocumentedIds[n] => ret = Ok(ChunkId(n))
        /\ (\A n \in DOMAIN DocumentedIds : bytes # DocumentedIds[n])
               => ret = Ok([kind |-> "Other", raw |-> bytes])

===========================================================================
